---- MODULE Spec2Model ----
(***************************************************************************)
(* Traffic-signal control core of OMIS6: the TrafficLight, Incident and    *)
(* GreenwaveStrategy objects of model.py, the generic Repository of        *)
(* repository.py and the TrafficController / IncidentController            *)
(* operations of controller.py.                                            *)
(*                                                                         *)
(* Python attributes that __init__ does not create (TrafficLight.confine,  *)
(* TrafficLight.baseDataPosition, TrafficLight.question_component) are     *)
(* modelled with the set `attrs` of attribute names the object has: a read *)
(* of a name outside it raises AttributeError, which ends the operation.   *)
(***************************************************************************)
EXTENDS Integers, Sequences, FiniteSets, TLC

\* ------------------------------------------------- bounds and input sets
MaxLights == 2
MaxIncidents == 2
MaxRoutes == 2

AllLightIds == <<"J1A", "XJ1", "J2A", "J2B">>
LightIds == {AllLightIds[i] : i \in 1..MaxLights}
AllIncidentIds == <<"INC1", "INC2", "INC3", "INC4">>
IncidentIds == {AllIncidentIds[i] : i \in 1..MaxIncidents}
AllRouteIds == <<"R1", "R2", "R3", "R4">>
RouteIds == {AllRouteIds[i] : i \in 1..MaxRoutes}
JunctionIds == {"J1", "J2"}
ReportedTypes == {"ACCIDENT", "CONGESTION"}
Severities == {1, 5, 9}
Durations == {20}
Locations == {"L1"}
Timestamps == {1}
Hours == {6, 7, 9, 10, 15, 16, 18, 19}

\* ------------------------------------------------------------------- enums
Phase == {"RED", "YELLOW", "GREEN", "OFF"}
Status == {"OPERATIONAL", "MALFUNCTION", "MAINTENANCE", "OFFLINE"}
IncidentStatus == {"REPORTED", "CONFIRMED", "RESOLVED", "FALSE_ALARM"}
IncidentType == {"ACCIDENT", "CONGESTION", "ROAD_CLOSURE", "CONSTRUCTION", "OTHER"}

PeakDuration == 45
OffPeakDuration == 30

\* calls: the manualSwitch calls of concurrent callers, each with its
\* arguments and the statement it has reached.
VARIABLES lightKeys, lightStorage, incidentStorage, strategies, lastOp, calls

vars == <<lightKeys, lightStorage, incidentStorage, strategies, lastOp, calls>>

\* The empty dict.
EmptyMap == [x \in {} |-> 0]

\* ---------------------------------------------------------- TrafficLight
\* TrafficLight.__init__: no confine, baseDataPosition or question_component
\* attribute is created; the fields of absent attributes hold a fixed filler.
TrafficLightInit ==
    [currentPhase |-> "RED", phaseDuration |-> 0, isOnline |-> FALSE,
     attrs |-> {}, confine |-> FALSE, baseDataPosition |-> 0,
     question_component |-> ""]

\* setPhaseUpdate without its guard on self.confine.
setPhaseUpdate_NoConfineGuard(light, phase, duration) ==
    IF "confine" \notin light.attrs
    THEN [light |-> light, exc |-> "AttributeError"]
    ELSE [light |-> [light EXCEPT !.currentPhase = phase,
                                  !.baseDataPosition = duration,
                                  !.attrs = @ \cup {"baseDataPosition"}],
          exc |-> "none"]

\* TrafficLight.setPhaseUpdate: the light after the call and how the call ends.
setPhaseUpdate(light, phase, duration) ==
    IF "confine" \notin light.attrs
    THEN [light |-> light, exc |-> "AttributeError"]
    ELSE IF light.confine
    THEN [light |-> light, exc |-> "none"]
    ELSE [light |-> [light EXCEPT !.currentPhase = phase,
                                  !.baseDataPosition = duration,
                                  !.attrs = @ \cup {"baseDataPosition"}],
          exc |-> "none"]

\* TrafficLight.getStatusUp: the Status returned, or the exception raised.
getStatusUp(light) ==
    IF "confine" \notin light.attrs THEN "AttributeError"
    ELSE IF light.confine THEN "MAINTENANCE"
    ELSE IF light.currentPhase = "OFF" THEN "OFFLINE"
    ELSE IF "question_component" \notin light.attrs THEN "AttributeError"
    ELSE IF light.question_component \in {"", "ERROR"} THEN "MALFUNCTION"
    ELSE "OPERATIONAL"

\* TrafficLight.setConfine
setConfine(light, confine) ==
    [light EXCEPT !.confine = confine, !.attrs = @ \cup {"confine"}]

\* ------------------------------------------------------------- Repository
\* Repository.getById / exists on the light store
HasLight(id) == id \in DOMAIN lightStorage

\* dict assignment _storage[id] = obj: a new key goes last, an old key keeps
\* its place.
PutKey(keys, id) == IF \E i \in 1..Len(keys) : keys[i] = id THEN keys ELSE Append(keys, id)

PutObj(storage, id, obj) ==
    [k \in DOMAIN storage \cup {id} |-> IF k = id THEN obj ELSE storage[k]]

\* del _storage[id]
DelKey(keys, id) == SelectSeq(keys, LAMBDA k : k # id)

DelObj(storage, id) == [k \in DOMAIN storage \ {id} |-> storage[k]]

\* The record of the last completed operation: its name, the ID it was called
\* with, what the caller got back (a return value, or the exception that
\* escaped, and the dict optimizePhases returns) and the branch its last
\* printed line tells of, where the return value does not.
Op(op, id, ret, msg, results) ==
    [op |-> op, id |-> id, ret |-> ret, msg |-> msg, results |-> results]

\* The same for an operation that returns no dict.
Op1(op, id, ret) == Op(op, id, ret, "-", EmptyMap)

NoOp == Op1("init", "-", "None")

\* The callers that may run manualSwitch at the same time, and a caller that
\* has not called yet.
Callers == {"c1", "c2"}

IdleCall == [pc |-> "idle", light_id |-> "-", phase |-> "-", duration |-> 0, ret |-> "-"]

Init ==
    /\ lightKeys = <<>>
    /\ lightStorage = EmptyMap
    /\ incidentStorage = EmptyMap
    /\ strategies = EmptyMap
    /\ lastOp = NoOp
    /\ calls = [c \in Callers |-> IdleCall]

\* Repository.add of a newly constructed TrafficLight
AddLight(id) ==
    /\ lightKeys' = PutKey(lightKeys, id)
    /\ lightStorage' = PutObj(lightStorage, id, TrafficLightInit)
    /\ lastOp' = Op1("add", id, "None")
    /\ UNCHANGED <<incidentStorage, strategies, calls>>

\* Repository.delete on the light store
DeleteLight(id) ==
    /\ IF HasLight(id)
       THEN /\ lightKeys' = DelKey(lightKeys, id)
            /\ lightStorage' = DelObj(lightStorage, id)
       ELSE UNCHANGED <<lightKeys, lightStorage>>
    /\ lastOp' = Op1("delete", id, "None")
    /\ UNCHANGED <<incidentStorage, strategies, calls>>

\* Repository.count on the light store
count == Cardinality(DOMAIN lightStorage)

\* update that stores the object whether or not the ID is known.
UpdateLight_Upserts(id, obj) ==
    /\ lightKeys' = PutKey(lightKeys, id)
    /\ lightStorage' = PutObj(lightStorage, id, obj)
    /\ lastOp' = Op1("update", id, "None")
    /\ UNCHANGED <<incidentStorage, strategies, calls>>

\* Repository.update on the light store
UpdateLight(id, obj) ==
    /\ IF HasLight(id)
       THEN /\ lightStorage' = [lightStorage EXCEPT ![id] = obj]
            /\ UNCHANGED lightKeys
       ELSE UNCHANGED <<lightKeys, lightStorage>>
    /\ lastOp' = Op1("update", id, "None")
    /\ UNCHANGED <<incidentStorage, strategies, calls>>

\* getById(id).setConfine(confine) on a stored light
SetConfine(id, confine) ==
    /\ HasLight(id)
    /\ lightStorage' = [lightStorage EXCEPT ![id] = setConfine(@, confine)]
    /\ lastOp' = Op1("setConfine", id, "None")
    /\ UNCHANGED <<lightKeys, incidentStorage, strategies, calls>>

\* getById(id).isOnline = online: the attribute is public and no method of
\* the class writes it, so whoever provisions the light does.
SetOnline(id, online) ==
    /\ HasLight(id)
    /\ lightStorage' = [lightStorage EXCEPT ![id].isOnline = online]
    /\ lastOp' = Op1("setOnline", id, "None")
    /\ UNCHANGED <<lightKeys, incidentStorage, strategies, calls>>

\* getById(id).question_component = value: getStatusUp reads the attribute
\* and no method creates it, so a caller that wants a status assigns it.
SetComponent(id, value) ==
    /\ HasLight(id)
    /\ lightStorage' = [lightStorage EXCEPT ![id].question_component = value,
                                            ![id].attrs = @ \cup {"question_component"}]
    /\ lastOp' = Op1("setComponent", id, "None")
    /\ UNCHANGED <<lightKeys, incidentStorage, strategies, calls>>

\* manualSwitch that answers True for a light it did not find.
ManualSwitch_NotFoundTrue(light_id, phase, duration) ==
    /\ IF HasLight(light_id)
       THEN LET r == setPhaseUpdate(lightStorage[light_id], phase, duration) IN
            /\ lightStorage' = [lightStorage EXCEPT ![light_id] = r.light]
            /\ lastOp' = Op1("manualSwitch", light_id,
                             IF r.exc = "none" THEN "True" ELSE r.exc)
       ELSE /\ UNCHANGED lightStorage
            /\ lastOp' = Op1("manualSwitch", light_id, "True")
    /\ UNCHANGED <<lightKeys, incidentStorage, strategies, calls>>

\* TrafficController.manualSwitch
ManualSwitch(light_id, phase, duration) ==
    /\ IF HasLight(light_id)
       THEN LET r == setPhaseUpdate(lightStorage[light_id], phase, duration) IN
            /\ lightStorage' = [lightStorage EXCEPT ![light_id] = r.light]
            /\ lastOp' = Op1("manualSwitch", light_id,
                             IF r.exc = "none" THEN "True" ELSE r.exc)
       ELSE /\ UNCHANGED lightStorage
            /\ lastOp' = Op1("manualSwitch", light_id, "False")
    /\ UNCHANGED <<lightKeys, incidentStorage, strategies, calls>>

\* ------------------------------------- manualSwitch, one statement at a time
\* Nothing in manualSwitch or setPhaseUpdate takes a lock, so callers on
\* different threads interleave between statements. Each caller makes one call.
SetCall(c, call) == [calls EXCEPT ![c] = call]

\* manualSwitch entered: light = self.lightRepo.getById(light_id)
CallStart(c, light_id, phase, duration) ==
    /\ calls[c].pc = "idle"
    /\ IF HasLight(light_id)
       THEN /\ calls' = SetCall(c, [pc |-> "check", light_id |-> light_id, phase |-> phase,
                                    duration |-> duration, ret |-> "-"])
            /\ UNCHANGED lastOp
       ELSE /\ calls' = SetCall(c, [pc |-> "done", light_id |-> light_id, phase |-> phase,
                                    duration |-> duration, ret |-> "False"])
            /\ lastOp' = Op1("manualSwitch", light_id, "False")
    /\ UNCHANGED <<lightKeys, lightStorage, incidentStorage, strategies>>

\* setPhaseUpdate: if self.confine: ... return
CallCheck(c) ==
    LET light == lightStorage[calls[c].light_id] IN
    /\ calls[c].pc = "check"
    /\ IF "confine" \notin light.attrs
       THEN /\ calls' = SetCall(c, [calls[c] EXCEPT !.pc = "done", !.ret = "AttributeError"])
            /\ lastOp' = Op1("manualSwitch", calls[c].light_id, "AttributeError")
       ELSE /\ calls' = SetCall(c, [calls[c] EXCEPT
                                      !.pc = IF light.confine THEN "update" ELSE "writePhase"])
            /\ UNCHANGED lastOp
    /\ UNCHANGED <<lightKeys, lightStorage, incidentStorage, strategies>>

\* setPhaseUpdate: self.currentPhase = phase
CallWritePhase(c) ==
    /\ calls[c].pc = "writePhase"
    /\ lightStorage' = [lightStorage EXCEPT ![calls[c].light_id].currentPhase = calls[c].phase]
    /\ calls' = SetCall(c, [calls[c] EXCEPT !.pc = "writeBase"])
    /\ UNCHANGED <<lightKeys, incidentStorage, strategies, lastOp>>

\* setPhaseUpdate: self.baseDataPosition = duration
CallWriteBase(c) ==
    /\ calls[c].pc = "writeBase"
    /\ lightStorage' = [lightStorage EXCEPT
                          ![calls[c].light_id].baseDataPosition = calls[c].duration,
                          ![calls[c].light_id].attrs = @ \cup {"baseDataPosition"}]
    /\ calls' = SetCall(c, [calls[c] EXCEPT !.pc = "update"])
    /\ UNCHANGED <<lightKeys, incidentStorage, strategies, lastOp>>

\* manualSwitch: self.lightRepo.update(light_id, light) stores the object that
\* is already there; return True
CallUpdate(c) ==
    /\ calls[c].pc = "update"
    /\ calls' = SetCall(c, [calls[c] EXCEPT !.pc = "done", !.ret = "True"])
    /\ lastOp' = Op1("manualSwitch", calls[c].light_id, "True")
    /\ UNCHANGED <<lightKeys, lightStorage, incidentStorage, strategies>>

\* A reader on another thread: getById(id), then the phase and duration read
\* off the object the store handed out, which is the object the writers
\* write. The two reads are taken in one step, the best a reader can do.
ReadLight(id) ==
    /\ HasLight(id)
    /\ lastOp' = Op("read", id, "dict", "-",
                    PutObj(EmptyMap, id,
                           [new_phase |-> lightStorage[id].currentPhase,
                            duration |-> lightStorage[id].phaseDuration]))
    /\ UNCHANGED <<lightKeys, lightStorage, incidentStorage, strategies, calls>>

\* The characters of an ID, for Python's substring test `a in b`.
Chars(s) ==
    CASE s = "J1A" -> <<"J", "1", "A">>
      [] s = "XJ1" -> <<"X", "J", "1">>
      [] s = "J2A" -> <<"J", "2", "A">>
      [] s = "J2B" -> <<"J", "2", "B">>
      [] s = "J1" -> <<"J", "1">>
      [] s = "J2" -> <<"J", "2">>
      [] OTHER -> <<>>

\* Python `a in b` on strings
StrIn(a, b) ==
    LET ca == Chars(a)
        cb == Chars(b)
    IN \E i \in 0..(Len(cb) - Len(ca)) : SubSeq(cb, i + 1, i + Len(ca)) = ca

\* TrafficLightRepository.findByIntersection: the keys of the lights found,
\* in dict order.
findByIntersection(intersection_id) ==
    SelectSeq(lightKeys, LAMBDA light_id : StrIn(intersection_id, light_id))

\* The duration optimizePhases applies at the given hour.
OptimizedDuration(hour) ==
    IF (7 <= hour /\ hour <= 9) \/ (16 <= hour /\ hour <= 18)
    THEN PeakDuration ELSE OffPeakDuration

\* The loop of TrafficController.optimizePhases over the junction's lights: the
\* store and the results dict when the loop ends, and the exception that ended
\* it early, if any.
RECURSIVE OptimizeLoop(_, _, _, _)
OptimizeLoop(keys, storage, results, hour) ==
    IF keys = <<>> THEN [storage |-> storage, results |-> results, exc |-> "none"]
    ELSE LET id == Head(keys)
             light == storage[id]
             current_status == getStatusUp(light)
         IN IF current_status = "AttributeError"
            THEN [storage |-> storage, results |-> results, exc |-> "AttributeError"]
            ELSE IF current_status = "OPERATIONAL"
            THEN LET r == setPhaseUpdate(light, "GREEN", OptimizedDuration(hour)) IN
                 IF r.exc # "none"
                 THEN [storage |-> storage, results |-> results, exc |-> r.exc]
                 ELSE OptimizeLoop(Tail(keys),
                                   [storage EXCEPT ![id] = r.light],
                                   PutObj(results, id,
                                          [new_phase |-> r.light.currentPhase,
                                           duration |-> r.light.phaseDuration]),
                                   hour)
            ELSE OptimizeLoop(Tail(keys), storage, results, hour)

\* TrafficController.optimizePhases
OptimizePhases(junction_id, hour) ==
    LET junction_lights == findByIntersection(junction_id) IN
    /\ IF junction_lights = <<>>
       THEN /\ UNCHANGED lightStorage
            /\ lastOp' = Op1("optimizePhases", junction_id, "error")
       ELSE LET r == OptimizeLoop(junction_lights, lightStorage, EmptyMap, hour) IN
            /\ lightStorage' = r.storage
            /\ lastOp' = Op("optimizePhases", junction_id,
                            IF r.exc = "none" THEN "results" ELSE r.exc, "-",
                            IF r.exc = "none" THEN r.results ELSE EmptyMap)
    /\ UNCHANGED <<lightKeys, incidentStorage, strategies, calls>>

\* A status query: getById(id).getStatusUp()
GetStatus(id) ==
    /\ HasLight(id)
    /\ lastOp' = Op1("getStatusUp", id, getStatusUp(lightStorage[id]))
    /\ UNCHANGED <<lightKeys, lightStorage, incidentStorage, strategies, calls>>

\* The routes a caller may ask for: up to two light IDs, known or not.
RouteChoices ==
    {<<>>} \cup {<<a>> : a \in LightIds} \cup {<<a, b>> : a, b \in LightIds}

\* The lights setGreenWave finds in the store, in the order asked for.
route_lights(lights) == SelectSeq(lights, LAMBDA light_id : HasLight(light_id))

\* setGreenWave without the test for an empty list of lights.
SetGreenWave_NoEmptyCheck(route_id, lights) ==
    /\ lastOp' = Op1("setGreenWave", route_id, "True")
    /\ UNCHANGED <<lightKeys, lightStorage, incidentStorage, strategies, calls>>

\* TrafficController.setGreenWave
SetGreenWave(route_id, lights) ==
    /\ lastOp' = Op1("setGreenWave", route_id,
                     IF route_lights(lights) = <<>> THEN "False" ELSE "True")
    /\ UNCHANGED <<lightKeys, lightStorage, incidentStorage, strategies, calls>>

\* ------------------------------------------------------ GreenwaveStrategy
TargetSpeeds == {50}

\* GreenwaveStrategy.__init__: the route is a list of TrafficLight objects,
\* named here by their lightId; the strategy reads none of their fields.
GreenwaveStrategyInit(route, targetSpeed) ==
    [route |-> route, targetSpeed |-> targetSpeed, isActive |-> FALSE]

\* GreenwaveStrategy.activate
activate(strategy) ==
    IF strategy.isActive THEN strategy ELSE [strategy EXCEPT !.isActive = TRUE]

\* deactivate that flips the flag instead of clearing it.
deactivate_Toggle(strategy) == [strategy EXCEPT !.isActive = ~@]

\* GreenwaveStrategy.deactivate
deactivate(strategy) ==
    IF ~strategy.isActive THEN strategy ELSE [strategy EXCEPT !.isActive = FALSE]

NewStrategy(strategyId, route, targetSpeed) ==
    /\ strategyId \notin DOMAIN strategies
    /\ strategies' = PutObj(strategies, strategyId, GreenwaveStrategyInit(route, targetSpeed))
    /\ lastOp' = Op1("newStrategy", strategyId, "None")
    /\ UNCHANGED <<lightKeys, lightStorage, incidentStorage, calls>>

Activate(strategyId) ==
    /\ strategyId \in DOMAIN strategies
    /\ strategies' = [strategies EXCEPT ![strategyId] = activate(@)]
    /\ lastOp' = Op("activate", strategyId, "None",
                    IF strategies[strategyId].isActive THEN "already active" ELSE "activated",
                    EmptyMap)
    /\ UNCHANGED <<lightKeys, lightStorage, incidentStorage, calls>>

Deactivate(strategyId) ==
    /\ strategyId \in DOMAIN strategies
    /\ strategies' = [strategies EXCEPT ![strategyId] = deactivate(@)]
    /\ lastOp' = Op("deactivate", strategyId, "None",
                    IF strategies[strategyId].isActive THEN "deactivated" ELSE "not active",
                    EmptyMap)
    /\ UNCHANGED <<lightKeys, lightStorage, incidentStorage, calls>>

\* ---------------------------------------------------------------- Incident
\* Incident.__init__
IncidentInit(incidentId, type, location, severity, timestamp) ==
    [incidentId |-> incidentId, type |-> type, location |-> location,
     severity |-> severity, timestamp |-> timestamp, status |-> "REPORTED"]

\* updateStatus that also stamps the incident with the time of the update.
updateStatus_Restamps(incident, status) ==
    [incident EXCEPT !.status = status, !.timestamp = @ + 1]

\* Incident.updateStatus
updateStatus(incident, status) == [incident EXCEPT !.status = status]

HasIncident(id) == id \in DOMAIN incidentStorage

\* IncidentController.createIncident
CreateIncident(incident_id, type, severity) ==
    /\ \E location \in Locations, now \in Timestamps :
         incidentStorage' = PutObj(incidentStorage, incident_id,
                                   IncidentInit(incident_id, type, location, severity, now))
    /\ lastOp' = Op1("createIncident", incident_id, "Incident")
    /\ UNCHANGED <<lightKeys, lightStorage, strategies, calls>>

\* IncidentController.verifyIncident
VerifyIncident(incident_id) ==
    /\ IF HasIncident(incident_id)
       THEN /\ incidentStorage' = [incidentStorage EXCEPT
                                     ![incident_id] = updateStatus(@, "CONFIRMED")]
            /\ lastOp' = Op1("verifyIncident", incident_id, "True")
       ELSE /\ UNCHANGED incidentStorage
            /\ lastOp' = Op1("verifyIncident", incident_id, "False")
    /\ UNCHANGED <<lightKeys, lightStorage, strategies, calls>>

\* IncidentController.closeIncident
CloseIncident(incident_id) ==
    /\ IF HasIncident(incident_id)
       THEN /\ incidentStorage' = [incidentStorage EXCEPT
                                     ![incident_id] = updateStatus(@, "RESOLVED")]
            /\ lastOp' = Op1("closeIncident", incident_id, "True")
       ELSE /\ UNCHANGED incidentStorage
            /\ lastOp' = Op1("closeIncident", incident_id, "False")
    /\ UNCHANGED <<lightKeys, lightStorage, strategies, calls>>

\* getById(id).updateStatus(status) on a stored incident
UpdateStatus(incident_id, status) ==
    /\ HasIncident(incident_id)
    /\ incidentStorage' = [incidentStorage EXCEPT ![incident_id] = updateStatus(@, status)]
    /\ lastOp' = Op1("updateStatus", incident_id, "None")
    /\ UNCHANGED <<lightKeys, lightStorage, strategies, calls>>

\* ---------------------------------------------------------- specifications
SignalNext ==
    \/ \E id \in LightIds : AddLight(id)
    \/ \E id \in LightIds : DeleteLight(id)
    \/ \E id \in LightIds, c \in BOOLEAN : SetConfine(id, c)
    \/ \E id \in LightIds, p \in Phase, d \in Durations : ManualSwitch(id, p, d)
    \/ \E j \in JunctionIds, h \in Hours : OptimizePhases(j, h)
    \/ \E id \in LightIds : GetStatus(id)
    \/ \E r \in RouteIds, ls \in RouteChoices : SetGreenWave(r, ls)

OptimizeNext ==
    \/ \E id \in LightIds : AddLight(id)
    \/ \E id \in LightIds, b \in BOOLEAN : SetOnline(id, b)
    \/ \E id \in LightIds, c \in BOOLEAN : SetConfine(id, c)
    \/ \E id \in LightIds, p \in Phase, d \in Durations : ManualSwitch(id, p, d)
    \/ \E j \in JunctionIds, h \in Hours : OptimizePhases(j, h)

\* What a light's component may be said to be.
ComponentStates == {"OK", "ERROR"}

DiagnosedNext ==
    \/ \E id \in LightIds : AddLight(id)
    \/ \E id \in LightIds, b \in BOOLEAN : SetOnline(id, b)
    \/ \E id \in LightIds, c \in BOOLEAN : SetConfine(id, c)
    \/ \E id \in LightIds, v \in ComponentStates : SetComponent(id, v)
    \/ \E j \in JunctionIds, h \in Hours : OptimizePhases(j, h)

RouteNext ==
    \/ \E r \in RouteIds, ls \in RouteChoices, v \in TargetSpeeds : NewStrategy(r, ls, v)
    \/ \E r \in RouteIds : Activate(r)
    \/ \E r \in RouteIds : Deactivate(r)

IncidentNext ==
    \/ \E i \in IncidentIds, t \in ReportedTypes, s \in Severities : CreateIncident(i, t, s)
    \/ \E i \in IncidentIds : VerifyIncident(i)
    \/ \E i \in IncidentIds : CloseIncident(i)
    \/ \E i \in IncidentIds, s \in IncidentStatus : UpdateStatus(i, s)

\* The traffic-light store under the controller's operations.
SpecSignal == Init /\ [][SignalNext]_vars

\* Junction optimization over lights that may have been put online.
SpecOptimize == Init /\ [][OptimizeNext]_vars

\* Junction optimization over lights whose component state has been assigned.
SpecDiagnosed == Init /\ [][DiagnosedNext]_vars

\* The durations a manual switch may be asked for, non-positive ones included.
SwitchDurations == {-5, 0, 20}

SwitchNext ==
    \/ \E id \in LightIds : AddLight(id)
    \/ \E id \in LightIds, c \in BOOLEAN : SetConfine(id, c)
    \/ \E id \in LightIds, p \in Phase, d \in SwitchDurations : ManualSwitch(id, p, d)

\* Manual switching with any duration.
SpecSwitch == Init /\ [][SwitchNext]_vars

\* What the concurrent callers ask for: two phases and two durations, so
\* that two calls can differ in both.
CallPhases == {"RED", "GREEN"}
CallDurations == {20, 40}

\* The lights are added and released or confined before the first call.
NoCallYet == \A c \in Callers : calls[c].pc = "idle"

ConcurrentNext ==
    \/ \E id \in LightIds : NoCallYet /\ ~HasLight(id) /\ AddLight(id)
    \/ \E id \in LightIds, b \in BOOLEAN : NoCallYet /\ SetConfine(id, b)
    \/ \E c \in Callers, id \in LightIds, p \in CallPhases, d \in CallDurations :
          CallStart(c, id, p, d)
    \/ \E c \in Callers : CallCheck(c)
    \/ \E c \in Callers : CallWritePhase(c)
    \/ \E c \in Callers : CallWriteBase(c)
    \/ \E c \in Callers : CallUpdate(c)
    \/ \E id \in LightIds : ReadLight(id)

\* Two callers of manualSwitch on separate threads.
SpecConcurrent == Init /\ [][ConcurrentNext]_vars

\* What an incident is reported with where only its ID matters.
FacadeTypes == {"ACCIDENT"}
FacadeSeverities == {5}

FacadeNext ==
    \/ \E id \in LightIds : AddLight(id)
    \/ \E id \in LightIds : DeleteLight(id)
    \/ \E id \in LightIds, p \in Phase, d \in Durations : ManualSwitch(id, p, d)
    \/ \E i \in IncidentIds, t \in FacadeTypes, s \in FacadeSeverities : CreateIncident(i, t, s)
    \/ \E i \in IncidentIds : VerifyIncident(i)
    \/ \E i \in IncidentIds : CloseIncident(i)

\* The controllers' calls by ID, on known and unknown IDs, over both stores.
SpecFacade == Init /\ [][FacadeNext]_vars

\* The objects a caller may hand to update: a new light, a confined one, a
\* released one and one switched to GREEN.
LightObjects ==
    {TrafficLightInit,
     setConfine(TrafficLightInit, TRUE),
     setConfine(TrafficLightInit, FALSE),
     setPhaseUpdate(setConfine(TrafficLightInit, FALSE), "GREEN", 20).light}

RepositoryNext ==
    \/ \E id \in LightIds : AddLight(id)
    \/ \E id \in LightIds, obj \in LightObjects : UpdateLight(id, obj)
    \/ \E id \in LightIds : DeleteLight(id)

\* The store by itself: add, update and delete on known and unknown IDs.
SpecRepository == Init /\ [][RepositoryNext]_vars

\* A strategy is built over lights taken from the store.
AllStored(route) == \A i \in 1..Len(route) : HasLight(route[i])

WaveNext ==
    \/ \E id \in LightIds : AddLight(id)
    \/ \E id \in LightIds : DeleteLight(id)
    \/ \E r \in RouteIds, ls \in RouteChoices, v \in TargetSpeeds :
          AllStored(ls) /\ NewStrategy(r, ls, v)
    \/ \E r \in RouteIds : Activate(r)
    \/ \E r \in RouteIds : Deactivate(r)

\* Strategies over stored lights, with the light store changing under them.
SpecWave == Init /\ [][WaveNext]_vars

\* The same where the callers never stop calling. Nothing in the code runs
\* on its own (no timer, thread or scheduler), so the callers' progress is the
\* only progress there is.
SpecWaveFair == SpecWave /\ WF_vars(WaveNext)

\* Green-wave strategies over the stored lights.
SpecRoute == Init /\ [][RouteNext]_vars

\* The incident store under the incident controller's operations.
SpecIncident == Init /\ [][IncidentNext]_vars

\* Every operation. The light store, the strategies and the incident store
\* are written by disjoint sets of operations, so each is explored under its
\* own specification above.
Next ==
    \/ SignalNext
    \/ OptimizeNext
    \/ DiagnosedNext
    \/ SwitchNext
    \/ ConcurrentNext
    \/ FacadeNext
    \/ RepositoryNext
    \/ WaveNext
    \/ RouteNext
    \/ IncidentNext

Spec == Init /\ [][Next]_vars

\* -------------------------------------------------------------- properties
Confined(id) ==
    /\ HasLight(id)
    /\ "confine" \in lightStorage[id].attrs
    /\ lightStorage[id].confine

Released(id) ==
    /\ HasLight(id)
    /\ "confine" \in lightStorage[id].attrs
    /\ ~lightStorage[id].confine

\* C1: a manual switch, a junction optimization or a green-wave request leaves
\* every confined signal in the store, confined, with the phase and the
\* phaseDuration it had.
C1_ConfinedFrozen ==
    [][\A id \in LightIds :
         (Confined(id) /\ lastOp'.op \in {"manualSwitch", "optimizePhases", "setGreenWave"})
         => /\ id \in DOMAIN lightStorage'
            /\ lightStorage'[id].confine
            /\ lightStorage'[id].currentPhase = lightStorage[id].currentPhase
            /\ lightStorage'[id].phaseDuration = lightStorage[id].phaseDuration]_vars

\* A manual switch was tried on a signal that was confined while GREEN.
C1_Witness ==
    /\ lastOp.op = "manualSwitch"
    /\ Confined(lastOp.id)
    /\ lightStorage[lastOp.id].currentPhase = "GREEN"

\* C2: a manual switch of a confined signal reports Locked and leaves the
\* signal as it was.
C2_LockedReported ==
    [][\A id \in LightIds :
         (Confined(id) /\ \E p \in Phase, d \in Durations : ManualSwitch(id, p, d))
         => /\ lastOp'.ret = "Locked"
            /\ lightStorage'[id] = lightStorage[id]]_vars

\* C3: a manual switch of a released signal that succeeds leaves the signal
\* with the phase and the phaseDuration asked for.
C3_PhaseAndDurationSet ==
    [][\A id \in LightIds, p \in Phase, d \in Durations :
         (Released(id) /\ ManualSwitch(id, p, d) /\ lastOp'.ret = "True")
         => /\ lightStorage'[id].currentPhase = p
            /\ lightStorage'[id].phaseDuration = d]_vars

\* The edges of the incident lifecycle.
IncidentEdges ==
    {<<"REPORTED", "CONFIRMED">>, <<"REPORTED", "FALSE_ALARM">>,
     <<"CONFIRMED", "RESOLVED">>}

\* The incident moved to `requested` if the edge is allowed; otherwise the
\* caller got InvalidTransition and the status stayed.
TransitionChecked(id, requested) ==
    IF <<incidentStorage[id].status, requested>> \in IncidentEdges
    THEN incidentStorage'[id].status = requested
    ELSE /\ lastOp'.ret = "InvalidTransition"
         /\ incidentStorage'[id].status = incidentStorage[id].status

\* C4: a status transition of a stored incident is accepted along the three
\* lifecycle edges only; any other is rejected with InvalidTransition and the
\* status stays.
C4_OnlyLifecycleEdges ==
    [][\A id \in IncidentIds :
         HasIncident(id) =>
            /\ VerifyIncident(id) => TransitionChecked(id, "CONFIRMED")
            /\ CloseIncident(id) => TransitionChecked(id, "RESOLVED")
            /\ \A s \in IncidentStatus :
                 UpdateStatus(id, s) => TransitionChecked(id, s)]_vars

\* C5: once the incident stored under an ID is RESOLVED or FALSE_ALARM, the
\* incident stored under that ID keeps that status.
C5_TerminalStatus ==
    [][\A id \in IncidentIds :
         (HasIncident(id) /\ incidentStorage[id].status \in {"RESOLVED", "FALSE_ALARM"})
         => /\ id \in DOMAIN incidentStorage'
            /\ incidentStorage'[id].status = incidentStorage[id].status]_vars

\* The lights of a route, as a set.
Members(strategy) == {strategy.route[i] : i \in 1..Len(strategy.route)}

\* Another route that is active shares a light with route r.
Conflicts(r) ==
    \E q \in DOMAIN strategies \ {r} :
        /\ strategies[q].isActive
        /\ Members(strategies[q]) \cap Members(strategies[r]) # {}

\* C6: activating a route that shares a light with another active route
\* fails with RouteConflict and changes no route.
C6_RouteConflictRejected ==
    [][\A r \in RouteIds :
         (r \in DOMAIN strategies /\ Conflicts(r) /\ Activate(r))
         => /\ lastOp'.ret = "RouteConflict"
            /\ strategies' = strategies]_vars

\* C7: no light is a member of two active routes.
C7_OneActiveRoutePerLight ==
    \A r, q \in DOMAIN strategies :
        (r # q /\ strategies[r].isActive /\ strategies[q].isActive)
        => Members(strategies[r]) \cap Members(strategies[q]) = {}

\* The lights of junction j that section 4.2 does not call OPERATIONAL:
\* confined, not online or switched OFF.
NotOperational(id) ==
    \/ Confined(id)
    \/ ~lightStorage[id].isOnline
    \/ lightStorage[id].currentPhase = "OFF"

\* C11: optimizePhases leaves every junction member that is confined, offline
\* or OFF with the phase and phaseDuration it had, and out of its result.
C11_SkipsNotOperational ==
    [][\A j \in JunctionIds, id \in LightIds :
         (/\ HasLight(id)
          /\ StrIn(j, id)
          /\ NotOperational(id)
          /\ \E h \in Hours : OptimizePhases(j, h))
         => /\ lightStorage'[id].currentPhase = lightStorage[id].currentPhase
            /\ lightStorage'[id].phaseDuration = lightStorage[id].phaseDuration
            /\ id \notin DOMAIN lastOp'.results]_vars

\* C9: deactivate leaves the route inactive with the membership it had, returns
\* normally and touches no light; on an inactive route it changes nothing, so
\* a second deactivate in a row changes nothing.
C9_DeactivateIdempotent ==
    [][\A r \in RouteIds :
         (r \in DOMAIN strategies /\ Deactivate(r))
         => /\ ~strategies'[r].isActive
            /\ strategies'[r].route = strategies[r].route
            /\ deactivate(strategies'[r]) = strategies'[r]
            /\ ~strategies[r].isActive => strategies' = strategies
            /\ lastOp'.ret = "None"
            /\ UNCHANGED <<lightKeys, lightStorage>>]_vars

\* deactivate was called on a route that has members and was not active.
C9_Witness ==
    /\ lastOp.op = "deactivate"
    /\ lastOp.msg = "not active"
    /\ strategies[lastOp.id].route # <<>>
    /\ ~strategies[lastOp.id].isActive

\* The status of section 4.2: OFFLINE if not online, else MAINTENANCE if
\* confined, else OFFLINE if the phase is OFF, else OPERATIONAL.
DerivedStatus(light) ==
    IF ~light.isOnline THEN "OFFLINE"
    ELSE IF "confine" \in light.attrs /\ light.confine THEN "MAINTENANCE"
    ELSE IF light.currentPhase = "OFF" THEN "OFFLINE"
    ELSE "OPERATIONAL"

\* C10: a status query returns the status derived from (online, confined,
\* phase) by section 4.2.
C10_StatusDerivation ==
    (lastOp.op = "getStatusUp" /\ HasLight(lastOp.id))
    => lastOp.ret = DerivedStatus(lightStorage[lastOp.id])

\* C12: after optimizePhases at hour h every junction light that is online,
\* released and lit is GREEN with phaseDuration 45 for h in 7..9 or 16..18
\* and 30 for any other hour.
C12_OptimizedDuration ==
    [][\A j \in JunctionIds, h \in Hours, id \in LightIds :
         (/\ HasLight(id)
          /\ StrIn(j, id)
          /\ DerivedStatus(lightStorage[id]) = "OPERATIONAL"
          /\ OptimizePhases(j, h))
         => /\ lightStorage'[id].currentPhase = "GREEN"
            /\ lightStorage'[id].phaseDuration =
                 (IF h \in (7..9) \cup (16..18) THEN 45 ELSE 30)]_vars

\* C14: manualSwitch of a released light with a duration <= 0 and a phase
\* other than OFF reports InvalidDuration and leaves the light as it was, and
\* a switch to OFF with duration 0 is accepted.
C14_InvalidDuration ==
    [][\A id \in LightIds, p \in Phase, d \in SwitchDurations :
         (Released(id) /\ ManualSwitch(id, p, d))
         => /\ (d <= 0 /\ p # "OFF")
               => /\ lastOp'.ret = "InvalidDuration"
                  /\ lightStorage'[id] = lightStorage[id]
            /\ (d = 0 /\ p = "OFF")
               => /\ lastOp'.ret = "True"
                  /\ lightStorage'[id].currentPhase = "OFF"]_vars

\* C15: every stored light whose phase is not OFF has phaseDuration > 0.
C15_PositiveDuration ==
    \A id \in DOMAIN lightStorage :
        lightStorage[id].currentPhase # "OFF" => lightStorage[id].phaseDuration > 0

\* Every caller has returned True from a call on this light.
BothSwitched(id) ==
    \A c \in Callers :
        calls[c].pc = "done" /\ calls[c].ret = "True" /\ calls[c].light_id = id

\* C16: when two concurrent manualSwitch calls on the same released light have
\* both returned, the light's (currentPhase, phaseDuration) is the (phase,
\* duration) of one of the two calls.
C16_SerialOutcome ==
    \A id \in DOMAIN lightStorage :
        (Released(id) /\ BothSwitched(id))
        => \E c \in Callers :
             /\ lightStorage[id].currentPhase = calls[c].phase
             /\ lightStorage[id].phaseDuration = calls[c].duration

\* C17: manualSwitch on an unknown light ID and verifyIncident / closeIncident
\* on an unknown incident ID report failure (return False) and leave both
\* stores and the strategies as they were.
C17_NotFoundNoChange ==
    [][/\ \A id \in LightIds, p \in Phase, d \in Durations :
            (~HasLight(id) /\ ManualSwitch(id, p, d))
            => /\ lastOp'.ret = "False"
               /\ UNCHANGED <<lightKeys, lightStorage, incidentStorage, strategies>>
       /\ \A i \in IncidentIds :
            (~HasIncident(i) /\ (VerifyIncident(i) \/ CloseIncident(i)))
            => /\ lastOp'.ret = "False"
               /\ UNCHANGED <<lightKeys, lightStorage, incidentStorage, strategies>>]_vars

\* An unknown incident was asked to be verified or closed while both stores
\* held something to lose.
C17_Witness ==
    /\ lastOp.op \in {"verifyIncident", "closeIncident"}
    /\ lastOp.ret = "False"
    /\ lastOp.id \notin DOMAIN incidentStorage
    /\ lightStorage # EmptyMap
    /\ incidentStorage # EmptyMap

C19_AlreadyActiveReported ==
    [][\A r \in RouteIds :
         (r \in DOMAIN strategies /\ strategies[r].isActive /\ Activate(r))
         => /\ lastOp'.ret = "AlreadyActive"
            /\ strategies' = strategies]_vars

\* C20: setGreenWave with a list that names a light not in the store reports
\* failure (returns False) and activates no strategy.
C20_UnknownLightRejected ==
    [][\A r \in RouteIds, ls \in RouteChoices :
         (SetGreenWave(r, ls) /\ \E i \in 1..Len(ls) : ~HasLight(ls[i]))
         => /\ lastOp'.ret = "False"
            /\ strategies' = strategies]_vars

\* C21: the mapping optimizePhases returns has a key for every light the call
\* changed and only for lights of the junction, and the duration under each
\* key is the one applied (45 in hours 7..9 and 16..18, else 30) and is the
\* light's phaseDuration after the call.
C21_ResultMatchesChange ==
    [][\A j \in JunctionIds, h \in Hours :
         (OptimizePhases(j, h) /\ lastOp'.ret = "results")
         => /\ \A id \in DOMAIN lightStorage :
                 lightStorage'[id] # lightStorage[id] => id \in DOMAIN lastOp'.results
            /\ \A id \in DOMAIN lastOp'.results :
                 /\ HasLight(id)
                 /\ StrIn(j, id)
                 /\ lastOp'.results[id].duration =
                      (IF h \in (7..9) \cup (16..18) THEN 45 ELSE 30)
                 /\ lastOp'.results[id].duration = lightStorage'[id].phaseDuration]_vars

\* The junction prefix is the start of the light's ID.
StartsWith(prefix, id) ==
    /\ Len(Chars(prefix)) <= Len(Chars(id))
    /\ SubSeq(Chars(id), 1, Len(Chars(prefix))) = Chars(prefix)

\* C28: optimizePhases for a junction changes, and reports, no light whose ID
\* does not begin with the junction's prefix.
C28_OnlyPrefixedLights ==
    [][\A j \in JunctionIds, h \in Hours, id \in LightIds :
         (HasLight(id) /\ ~StartsWith(j, id) /\ OptimizePhases(j, h))
         => /\ lightStorage'[id] = lightStorage[id]
            /\ id \notin DOMAIN lastOp'.results]_vars

\* C22: verifyIncident, closeIncident and updateStatus on a stored incident
\* leave its incidentId, type, location, severity and timestamp, and every
\* other incident, as they were.
C22_OnlyStatusChanges ==
    [][\A i \in IncidentIds :
         (/\ HasIncident(i)
          /\ \/ VerifyIncident(i)
             \/ CloseIncident(i)
             \/ \E s \in IncidentStatus : UpdateStatus(i, s))
         => /\ DOMAIN incidentStorage' = DOMAIN incidentStorage
            /\ incidentStorage'[i].incidentId = incidentStorage[i].incidentId
            /\ incidentStorage'[i].type = incidentStorage[i].type
            /\ incidentStorage'[i].location = incidentStorage[i].location
            /\ incidentStorage'[i].severity = incidentStorage[i].severity
            /\ incidentStorage'[i].timestamp = incidentStorage[i].timestamp
            /\ \A k \in DOMAIN incidentStorage \ {i} :
                 incidentStorage'[k] = incidentStorage[k]]_vars

\* A lifecycle operation has moved a stored incident off REPORTED.
C22_Witness ==
    /\ lastOp.op \in {"verifyIncident", "closeIncident", "updateStatus"}
    /\ HasIncident(lastOp.id)
    /\ incidentStorage[lastOp.id].status # "REPORTED"

\* C23: every stored incident has a severity in 1..5.
C23_SeverityInRange ==
    \A i \in DOMAIN incidentStorage : incidentStorage[i].severity \in 1..5

\* The strategy exists, is active and has at least one member.
ActiveRoute(r) ==
    /\ r \in DOMAIN strategies
    /\ strategies[r].isActive
    /\ strategies[r].route # <<>>

\* C24: once a strategy over stored lights is active, then unless it is
\* deactivated every light on its route is eventually GREEN.
C24_MembersEventuallyGreen ==
    \A r \in RouteIds :
        (ActiveRoute(r) /\ AllStored(strategies[r].route))
        ~> (\/ ~ActiveRoute(r)
            \/ \A i \in 1..Len(strategies[r].route) :
                 /\ HasLight(strategies[r].route[i])
                 /\ lightStorage[strategies[r].route[i]].currentPhase = "GREEN")

\* C27: every light on the route of an active strategy is in the light store.
C27_ActiveMembersStored ==
    \A r \in DOMAIN strategies :
        strategies[r].isActive => AllStored(strategies[r].route)

\* Caller c is inside a manualSwitch on this light and no other caller has
\* called on it.
OnlyWriter(c, id) ==
    /\ calls[c].light_id = id
    /\ calls[c].pc \in {"check", "writePhase", "writeBase", "update"}
    /\ \A k \in Callers \ {c} : calls[k].light_id # id

\* C25: a read of a released light taken while one manualSwitch is running
\* on it returns either the (phase, phaseDuration) the light was created
\* with or the pair of that call.
C25_NoTornRead ==
    [][\A id \in LightIds, c \in Callers :
         (Released(id) /\ OnlyWriter(c, id) /\ ReadLight(id))
         => LET seen == lastOp'.results[id] IN
            \/ /\ seen.new_phase = TrafficLightInit.currentPhase
               /\ seen.duration = TrafficLightInit.phaseDuration
            \/ /\ seen.new_phase = calls[c].phase
               /\ seen.duration = calls[c].duration]_vars

\* C29: on a light that is as __init__ made it (RED, never confined or
\* released), a manualSwitch with a positive duration returns True and sets
\* the phase, and a status query returns a Status.
C29_FreshLightUsable ==
    [][\A id \in LightIds :
         (HasLight(id) /\ lightStorage[id] = TrafficLightInit)
         => /\ lightStorage[id].currentPhase = "RED"
            /\ \A p \in Phase, d \in Durations :
                 (d > 0 /\ ManualSwitch(id, p, d))
                 => /\ lastOp'.ret = "True"
                    /\ lightStorage'[id].currentPhase = p
            /\ GetStatus(id) => lastOp'.ret \in Status]_vars

\* C30: after add(id, obj) the store holds obj under id, with count raised by
\* one for a new id and unchanged for a known one and every other entry as it
\* was; update and delete on an id that is not in the store leave the store,
\* its order and its count unchanged.
C30_StoreDiscipline ==
    [][/\ \A id \in LightIds :
            AddLight(id)
            => /\ id \in DOMAIN lightStorage'
               /\ lightStorage'[id] = TrafficLightInit
               /\ count' = (IF HasLight(id) THEN count ELSE count + 1)
               /\ Len(lightKeys') = count'
               /\ \A k \in DOMAIN lightStorage \ {id} : lightStorage'[k] = lightStorage[k]
       /\ \A id \in LightIds :
            (/\ ~HasLight(id)
             /\ \/ DeleteLight(id)
                \/ \E obj \in LightObjects : UpdateLight(id, obj))
            => /\ UNCHANGED <<lightKeys, lightStorage>>
               /\ count' = count]_vars

\* update or delete was called with an id the store, which is not empty, does
\* not hold.
C30_Witness ==
    /\ lastOp.op \in {"update", "delete"}
    /\ ~HasLight(lastOp.id)
    /\ lightStorage # EmptyMap
    /\ \E id \in DOMAIN lightStorage : lightStorage[id] # TrafficLightInit
====
